---- MODULE Spec2Model ----
(***************************************************************************)
(* axum-params, src/serde.rs: the bridge between the dynamic Value tree    *)
(* and serde.  Value implements Deserialize (ParamsValueVisitor) and       *)
(* Deserializer (deserialize_any, the scalar coercions, deserialize_enum,  *)
(* deserialize_option) with MapAccessor / SeqAccessor for containers.      *)
(*                                                                         *)
(* Representation.  Text is a TLA+ string, read character by character     *)
(* with Head/Tail/SubSeq.  Program integers (i8..u64) are canonical        *)
(* decimal numerals ("0", "10", "-3"): u64 and i64 exceed the native      *)
(* integers of TLC, so arithmetic on them is done on numerals.  Floats     *)
(* are exact decimals [neg, m, e] (value = m * 10^e); binary rounding is   *)
(* not modelled.  A Result is Ok(x) = [ok |-> x] or Err(msg) = [err |->    *)
(* msg]; an Option is None or Some(x).                                     *)
(***************************************************************************)
EXTENDS Integers, Sequences, FiniteSets, TLC

VARIABLES input, value, request, outcome, first_outcome, map, current_value, calls

vars == <<input, value, request, outcome, first_outcome, map, current_value, calls>>

-----------------------------------------------------------------------------
(* Result and Option *)

Ok(x) == [ok |-> x]

Err(msg) == [err |-> msg]

IsOk(r) == "ok" \in DOMAIN r

IsErr(r) == "err" \in DOMAIN r

None == [none |-> TRUE]

Some(x) == [some |-> x]

IsSome(o) == "some" \in DOMAIN o

-----------------------------------------------------------------------------
(* Text *)

CharAt(s, i) == SubSeq(s, i, i)

Digits == {"0", "1", "2", "3", "4", "5", "6", "7", "8", "9"}

DigitVal(c) ==
  CASE c = "0" -> 0 [] c = "1" -> 1 [] c = "2" -> 2 [] c = "3" -> 3 [] c = "4" -> 4
    [] c = "5" -> 5 [] c = "6" -> 6 [] c = "7" -> 7 [] c = "8" -> 8 [] c = "9" -> 9

UpperCase == "ABCDEFGHIJKLMNOPQRSTUVWXYZ"

LowerCase == "abcdefghijklmnopqrstuvwxyz"

IndexIn(alphabet, c) ==
  IF \E i \in 1..Len(alphabet) : CharAt(alphabet, i) = c
  THEN CHOOSE i \in 1..Len(alphabet) : CharAt(alphabet, i) = c
  ELSE 0

\* char::to_lowercase on the characters of the model's alphabet (ASCII).
char_to_lowercase(c) ==
  IF IndexIn(UpperCase, c) = 0 THEN c ELSE CharAt(LowerCase, IndexIn(UpperCase, c))

char_to_uppercase(c) ==
  IF IndexIn(LowerCase, c) = 0 THEN c ELSE CharAt(UpperCase, IndexIn(LowerCase, c))

RECURSIVE to_lowercase(_)
to_lowercase(s) ==
  IF s = "" THEN "" ELSE char_to_lowercase(Head(s)) \o to_lowercase(Tail(s))

-----------------------------------------------------------------------------
(* Numerals: arbitrary-precision naturals as canonical decimal strings *)

RECURSIVE LexLess(_, _)
LexLess(a, b) ==
  IF a = "" THEN FALSE
  ELSE IF Head(a) # Head(b) THEN DigitVal(Head(a)) < DigitVal(Head(b))
  ELSE LexLess(Tail(a), Tail(b))

\* a < b for canonical magnitudes
MagLess(a, b) == Len(a) < Len(b) \/ (Len(a) = Len(b) /\ LexLess(a, b))

\* magnitude * 10
MagMul10(m) == IF m = "0" THEN "0" ELSE m \o "0"

\* magnitude + digit, for a magnitude that ends in 0 (the product of MagMul10)
MagAddDigit(m, c) == IF m = "0" THEN c ELSE SubSeq(m, 1, Len(m) - 1) \o c

Signed(is_positive, m) == IF is_positive \/ m = "0" THEN m ELSE "-" \o m

-----------------------------------------------------------------------------
(* str::parse for the integer types (core::num, radix 10), as invoked by   *)
(* deserialize_i8 .. deserialize_u64 through s.parse()                     *)

IntTypes == {"i8", "i16", "i32", "i64", "u8", "u16", "u32", "u64"}

is_signed_ty(T) == T \in {"i8", "i16", "i32", "i64"}

\* T::MAX
TyMax(T) ==
  CASE T = "i8" -> "127" [] T = "i16" -> "32767" [] T = "i32" -> "2147483647"
    [] T = "i64" -> "9223372036854775807"
    [] T = "u8" -> "255" [] T = "u16" -> "65535" [] T = "u32" -> "4294967295"
    [] T = "u64" -> "18446744073709551615"

\* the magnitude of T::MIN
TyMinMag(T) ==
  CASE T = "i8" -> "128" [] T = "i16" -> "32768" [] T = "i32" -> "2147483648"
    [] T = "i64" -> "9223372036854775808"
    [] OTHER -> "0"

PosOverflow == "number too large to fit in target type"

NegOverflow == "number too small to fit in target type"

InvalidDigit == "invalid digit found in string"

EmptyInt == "cannot parse integer from empty string"

\* One iteration per character: to_digit, checked_mul(10), then checked_add
\* (positive) or checked_sub (negative); result is the magnitude so far.
RECURSIVE checked_loop(_, _, _, _)
checked_loop(T, is_positive, digits, result) ==
  IF digits = "" THEN Ok(Signed(is_positive, result))
  ELSE LET c == Head(digits)
           limit == IF is_positive THEN TyMax(T) ELSE TyMinMag(T)
           overflow == IF is_positive THEN PosOverflow ELSE NegOverflow
           mul == MagMul10(result)
           sum == MagAddDigit(mul, c)
       IN IF c \notin Digits THEN Err(InvalidDigit)
          ELSE IF MagLess(limit, mul) THEN Err(overflow)
          ELSE IF MagLess(limit, sum) THEN Err(overflow)
          ELSE checked_loop(T, is_positive, Tail(digits), sum)

from_str_radix(T, src) ==
  IF src = "" THEN Err(EmptyInt)
  ELSE IF src \in {"+", "-"} THEN Err(InvalidDigit)
  ELSE IF Head(src) = "+" THEN checked_loop(T, TRUE, Tail(src), "0")
  ELSE IF Head(src) = "-" /\ is_signed_ty(T) THEN checked_loop(T, FALSE, Tail(src), "0")
  ELSE checked_loop(T, TRUE, src, "0")

-----------------------------------------------------------------------------
(* str::parse for f32 / f64 (core::num::dec2flt), as invoked by            *)
(* deserialize_f32 / deserialize_f64                                       *)

EmptyFloat == "cannot parse float from empty string"

InvalidFloat == "invalid float literal"

RECURSIVE DigitPrefixLen(_)
DigitPrefixLen(s) ==
  IF s = "" \/ Head(s) \notin Digits THEN 0 ELSE 1 + DigitPrefixLen(Tail(s))

Drop(s, n) == SubSeq(s, n + 1, Len(s))

RECURSIVE StripLeadingZeros(_)
StripLeadingZeros(s) ==
  IF Len(s) > 1 /\ Head(s) = "0" THEN StripLeadingZeros(Tail(s)) ELSE s

RECURSIVE TrailingZeros(_)
TrailingZeros(s) ==
  IF Len(s) > 1 /\ CharAt(s, Len(s)) = "0" THEN 1 + TrailingZeros(SubSeq(s, 1, Len(s) - 1))
  ELSE 0

\* the value of a short numeral as a native integer
RECURSIVE ToInt(_)
ToInt(s) ==
  IF s = "" THEN 0
  ELSE IF Head(s) = "-" THEN 0 - ToInt(Tail(s))
  ELSE 10 * ToInt(SubSeq(s, 1, Len(s) - 1)) + DigitVal(CharAt(s, Len(s)))

\* the exact decimal m * 10^e, normalised: no leading or trailing zeros in m
Decimal(neg, digits, e) ==
  LET m == StripLeadingZeros(IF digits = "" THEN "0" ELSE digits)
      z == TrailingZeros(m)
  IN IF m = "0" THEN [neg |-> neg, m |-> "0", e |-> 0]
     ELSE [neg |-> neg, m |-> SubSeq(m, 1, Len(m) - z), e |-> e + z]

\* [sign] (inf | infinity | nan | digits [. digits] [e [sign] digits])
dec2flt(src) ==
  IF src = "" THEN Err(EmptyFloat)
  ELSE LET neg == Head(src) = "-"
           s == IF Head(src) \in {"+", "-"} THEN Tail(src) ELSE src
           ni == DigitPrefixLen(s)
           after_int == Drop(s, ni)
           has_dot == after_int # "" /\ Head(after_int) = "."
           nf == IF has_dot THEN DigitPrefixLen(Tail(after_int)) ELSE 0
           after_frac == IF has_dot THEN Drop(Tail(after_int), nf) ELSE after_int
           has_exp == after_frac # "" /\ Head(after_frac) \in {"e", "E"}
           exp_text == IF has_exp THEN Tail(after_frac) ELSE ""
           exp_neg == exp_text # "" /\ Head(exp_text) = "-"
           exp_digits == IF exp_text # "" /\ Head(exp_text) \in {"+", "-"}
                         THEN Tail(exp_text) ELSE exp_text
           exp == IF has_exp THEN (IF exp_neg THEN 0 - ToInt(exp_digits) ELSE ToInt(exp_digits))
                  ELSE 0
           mantissa == SubSeq(s, 1, ni) \o (IF has_dot THEN SubSeq(Tail(after_int), 1, nf) ELSE "")
       IN IF to_lowercase(s) \in {"inf", "infinity"} THEN Ok([neg |-> neg, special |-> "inf"])
          ELSE IF to_lowercase(s) = "nan" THEN Ok([neg |-> neg, special |-> "nan"])
          ELSE IF ni + nf = 0 THEN Err(InvalidFloat)
          ELSE IF has_exp /\ (exp_digits = "" \/ DigitPrefixLen(exp_digits) # Len(exp_digits))
          THEN Err(InvalidFloat)
          ELSE IF ~has_exp /\ after_frac # "" THEN Err(InvalidFloat)
          ELSE Ok(Decimal(neg, mantissa, exp - nf))

-----------------------------------------------------------------------------
(* Value, Number, N, UploadFile: the variants matched in src/serde.rs *)

Null == [t |-> "Null"]

Bool(b) == [t |-> "Bool", b |-> b]

PosInt(i) == [t |-> "PosInt", i |-> i]

NegInt(i) == [t |-> "NegInt", i |-> i]

Float(f) == [t |-> "Float", f |-> f]

Number(n) == [t |-> "Number", n |-> n]

String(s) == [t |-> "String", s |-> s]

XStr(s) == [t |-> "XStr", s |-> s]

Array(vec) == [t |-> "Array", vec |-> vec]

Object(m) == [t |-> "Object", map |-> m]

UploadFile(file) == [t |-> "UploadFile", file |-> file]

\* HashMap::from(entries): a function from keys to values
EmptyMap == [k \in {} |-> Null]

Entry(k, v) == k :> v

-----------------------------------------------------------------------------
(* Visitor callbacks: what a Deserializer method hands to its visitor *)

visit_unit == [visit |-> "visit_unit"]

visit_none == [visit |-> "visit_none"]

visit_some(de) == [visit |-> "visit_some", de |-> de]

visit_bool(b) == [visit |-> "visit_bool", b |-> b]

visit_int(T, n) == [visit |-> "visit_" \o T, n |-> n]

visit_u64(n) == visit_int("u64", n)

visit_i64(n) == visit_int("i64", n)

visit_f32(f) == [visit |-> "visit_f32", f |-> f]

visit_f64(f) == [visit |-> "visit_f64", f |-> f]

visit_char(c) == [visit |-> "visit_char", c |-> c]

visit_string(s) == [visit |-> "visit_string", s |-> s]

visit_str(s) == [visit |-> "visit_str", s |-> s]

visit_seq(seq) == [visit |-> "visit_seq", seq |-> seq]

visit_map(m) == [visit |-> "visit_map", map |-> m]

visit_enum(de) == [visit |-> "visit_enum", de |-> de]

\* String::into_deserializer()
StringDeserializer(s) == [t |-> "StringDeserializer", s |-> s]

-----------------------------------------------------------------------------
(* MapAccessor and SeqAccessor *)

\* map is what the HashMap iterator has not yielded yet; the iterator yields
\* the remaining entries in an order fixed by the table's hash seed, which
\* the caller of next supplies as the entry k it is about to yield.
MapAccessor_new(m) == [map |-> m, current_value |-> None]

SeqAccessor(vec) == [seq |-> vec]

-----------------------------------------------------------------------------
(* impl Deserializer for Value *)

\* the UploadFile arm's map with the key of the storage path misnamed
upload_file_map_path(file) ==
  Entry("name", String(file.name))
  @@ Entry("content_type", String(file.content_type))
  @@ Entry("path", String(file.temp_file_path))

\* HashMap::from([...]) of the UploadFile arm; temp_file_path.to_string()
\* is the text of the path
upload_file_map(file) ==
  Entry("name", String(file.name))
  @@ Entry("content_type", String(file.content_type))
  @@ Entry("temp_file_path", String(file.temp_file_path))

deserialize_any(self) ==
  CASE self.t = "Null" -> visit_unit
    [] self.t = "Bool" -> visit_bool(self.b)
    [] self.t = "Number" ->
         (CASE self.n.t = "PosInt" -> visit_u64(self.n.i)
            [] self.n.t = "NegInt" -> visit_i64(self.n.i)
            [] self.n.t = "Float" -> visit_f64(self.n.f))
    [] self.t = "String" -> visit_string(self.s)
    [] self.t = "Object" -> visit_map(MapAccessor_new(self.map))
    [] self.t = "Array" -> visit_seq(SeqAccessor(self.vec))
    [] self.t = "XStr" -> visit_string(self.s)
    [] self.t = "UploadFile" -> visit_map(MapAccessor_new(upload_file_map(self.file)))

\* deserialize_enum folding the selector to lower case first
deserialize_enum_ignoring_case(self) ==
  CASE self.t = "XStr" -> visit_enum(StringDeserializer(to_lowercase(self.s)))
    [] self.t = "String" -> visit_enum(StringDeserializer(to_lowercase(self.s)))
    [] OTHER -> deserialize_any(self)

\* deserialize_enum with the String arm left to the generic dispatch
deserialize_enum_xstr_only(self) ==
  CASE self.t = "XStr" -> visit_enum(StringDeserializer(self.s))
    [] OTHER -> deserialize_any(self)

deserialize_enum(self) ==
  CASE self.t = "XStr" -> visit_enum(StringDeserializer(self.s))
    [] self.t = "String" -> visit_enum(StringDeserializer(self.s))
    [] OTHER -> deserialize_any(self)

\* deserialize_bool matching the text as written, without to_lowercase
deserialize_bool_case_sensitive(self) ==
  CASE self.t = "XStr" ->
         (CASE self.s \in {"true", "1", "on", "yes"} -> visit_bool(TRUE)
            [] self.s \in {"false", "0", "off", "no"} -> visit_bool(FALSE)
            [] OTHER -> Err("invalid boolean value"))
    [] OTHER -> deserialize_any(self)

deserialize_bool(self) ==
  CASE self.t = "XStr" ->
         (CASE to_lowercase(self.s) \in {"true", "1", "on", "yes"} -> visit_bool(TRUE)
            [] to_lowercase(self.s) \in {"false", "0", "off", "no"} -> visit_bool(FALSE)
            [] OTHER -> Err("invalid boolean value"))
    [] OTHER -> deserialize_any(self)

\* s.parse().map_err(de::Error::custom).and_then(|v| visitor.visit_T(v))
parse_int_and_visit(T, s) ==
  LET r == from_str_radix(T, s) IN IF IsErr(r) THEN r ELSE visit_int(T, r.ok)

\* the numeral of a native integer
RECURSIVE FromNat(_)
FromNat(n) ==
  IF n < 10 THEN CharAt("0123456789", n + 1)
  ELSE FromNat(n \div 10) \o CharAt("0123456789", (n % 10) + 1)

FromInt(n) == IF n < 0 THEN "-" \o FromNat(0 - n) ELSE FromNat(n)

\* deserialize_i8 parsing at a wider type and narrowing with a cast:
\* s.parse::<i32>() followed by v as i8
deserialize_i8_with_cast(self) ==
  CASE self.t = "XStr" ->
         (LET r == from_str_radix("i32", self.s)
          IN IF IsErr(r) THEN r
             ELSE visit_int("i8", FromInt(((((ToInt(r.ok) % 256) + 128) % 256)) - 128)))
    [] OTHER -> deserialize_any(self)

deserialize_i8(self) ==
  CASE self.t = "XStr" -> parse_int_and_visit("i8", self.s)
    [] OTHER -> deserialize_any(self)

deserialize_i16(self) ==
  CASE self.t = "XStr" -> parse_int_and_visit("i16", self.s)
    [] OTHER -> deserialize_any(self)

\* deserialize_i32 coercing every text source: Value::XStr(s) | Value::String(s)
deserialize_i32_any_text(self) ==
  CASE self.t \in {"XStr", "String"} -> parse_int_and_visit("i32", self.s)
    [] OTHER -> deserialize_any(self)

deserialize_i32(self) ==
  CASE self.t = "XStr" -> parse_int_and_visit("i32", self.s)
    [] OTHER -> deserialize_any(self)

deserialize_i64(self) ==
  CASE self.t = "XStr" -> parse_int_and_visit("i64", self.s)
    [] OTHER -> deserialize_any(self)

deserialize_u8(self) ==
  CASE self.t = "XStr" -> parse_int_and_visit("u8", self.s)
    [] OTHER -> deserialize_any(self)

deserialize_u16(self) ==
  CASE self.t = "XStr" -> parse_int_and_visit("u16", self.s)
    [] OTHER -> deserialize_any(self)

deserialize_u32(self) ==
  CASE self.t = "XStr" -> parse_int_and_visit("u32", self.s)
    [] OTHER -> deserialize_any(self)

deserialize_u64(self) ==
  CASE self.t = "XStr" -> parse_int_and_visit("u64", self.s)
    [] OTHER -> deserialize_any(self)

deserialize_f32(self) ==
  CASE self.t = "XStr" ->
         (LET r == dec2flt(self.s) IN IF IsErr(r) THEN r ELSE visit_f32(r.ok))
    [] OTHER -> deserialize_any(self)

deserialize_f64(self) ==
  CASE self.t = "XStr" ->
         (LET r == dec2flt(self.s) IN IF IsErr(r) THEN r ELSE visit_f64(r.ok))
    [] OTHER -> deserialize_any(self)

\* (chars.next(), chars.next()) == (Some(c), None)
deserialize_char(self) ==
  CASE self.t = "XStr" ->
         (IF Len(self.s) = 1 THEN visit_char(self.s) ELSE Err("invalid char value"))
    [] OTHER -> deserialize_any(self)

deserialize_option(self) ==
  CASE self.t = "Null" -> visit_none
    [] OTHER -> visit_some(self)

\* forward_to_deserialize_any!: str string bytes byte_buf unit newtype_struct
\* seq tuple tuple_struct map unit_struct struct identifier ignored_any
Forwarded ==
  {"str", "string", "bytes", "byte_buf", "unit", "newtype_struct", "seq", "tuple",
   "tuple_struct", "map", "unit_struct", "struct", "identifier", "ignored_any"}

\* The Deserializer method of Value named by a request
deserialize(method, self) ==
  CASE method = "any" -> deserialize_any(self)
    [] method = "enum" -> deserialize_enum(self)
    [] method = "bool" -> deserialize_bool(self)
    [] method = "i8" -> deserialize_i8(self)
    [] method = "i16" -> deserialize_i16(self)
    [] method = "i32" -> deserialize_i32(self)
    [] method = "i64" -> deserialize_i64(self)
    [] method = "u8" -> deserialize_u8(self)
    [] method = "u16" -> deserialize_u16(self)
    [] method = "u32" -> deserialize_u32(self)
    [] method = "u64" -> deserialize_u64(self)
    [] method = "f32" -> deserialize_f32(self)
    [] method = "f64" -> deserialize_f64(self)
    [] method = "char" -> deserialize_char(self)
    [] method = "option" -> deserialize_option(self)
    [] method \in Forwarded -> deserialize_any(self)

-----------------------------------------------------------------------------
(* Target types: the Deserialize implementations that drive a Value.       *)
(* Scalars, String, Option and Vec are serde's; the struct and enum        *)
(* visitors are what #[derive(Deserialize)] generates for the types of     *)
(* the tests (Currency, CurrencyCode, CurrencyWrapper).                    *)

Ty(name) == [ty |-> name]

ValueTy == Ty("Value")

OptionTy(T) == [ty |-> "Option", of |-> T]

VecTy(T) == [ty |-> "Vec", of |-> T]

EnumTy(name, variants) == [ty |-> "enum", name |-> name, variants |-> variants]

Field(name, T) == [name |-> name, ty |-> T]

StructTy(name, fields) == [ty |-> "struct", name |-> name, fields |-> fields]

\* the __Field identifier of a derived struct
FieldTy(fields) == [ty |-> "identifier", fields |-> fields]

\* enum CurrencyCode { usd, gbp, cad }
CurrencyCode == EnumTy("CurrencyCode", <<"usd", "gbp", "cad">>)

\* struct Currency { amount: i32, currency_code: CurrencyCode }
Currency ==
  StructTy("Currency", <<Field("amount", Ty("i32")), Field("currency_code", CurrencyCode)>>)

\* struct CurrencyWrapper { currency: Currency }
CurrencyWrapper == StructTy("CurrencyWrapper", <<Field("currency", Currency)>>)

\* the record of the specification's example: {amount: i32, code: enum
\* with the unit variant usd}, reached under the key a
Code == EnumTy("Code", <<"usd">>)

Record == StructTy("Record", <<Field("amount", Ty("i32")), Field("code", Code)>>)

RecordWrapper == StructTy("RecordWrapper", <<Field("a", Record)>>)

\* The Deserializer method T::deserialize calls
MethodOf(T) ==
  CASE T.ty = "Value" -> "any"
    [] T.ty = "String" -> "string"
    [] T.ty = "IgnoredAny" -> "ignored_any"
    [] T.ty = "Option" -> "option"
    [] T.ty = "Vec" -> "seq"
    [] T.ty = "enum" -> "enum"
    [] T.ty = "struct" -> "struct"
    [] T.ty = "identifier" -> "identifier"
    [] OTHER -> T.ty

\* Number::from(i64), Number::from(u64), Number::from(f64)
Number_from_i64(v) == IF Head(v) = "-" THEN NegInt(v) ELSE PosInt(v)

Number_from_u64(v) == PosInt(v)

Number_from_f64(v) == Float(v)

\* Display of a float, as serde's Unexpected::Float prints it
RECURSIVE Zeros(_)
Zeros(n) == IF n <= 0 THEN "" ELSE "0" \o Zeros(n - 1)

FormatFloat(f) ==
  IF "special" \in DOMAIN f THEN (IF f.special = "nan" THEN "NaN" ELSE Signed(~f.neg, "inf"))
  ELSE LET body == IF f.e >= 0 THEN f.m \o Zeros(f.e) \o ".0"
                   ELSE IF Len(f.m) > 0 - f.e
                   THEN SubSeq(f.m, 1, Len(f.m) + f.e) \o "." \o Drop(f.m, Len(f.m) + f.e)
                   ELSE "0." \o Zeros((0 - f.e) - Len(f.m)) \o f.m
       IN IF f.neg THEN "-" \o body ELSE body

IntVisits == {"visit_" \o T : T \in IntTypes}

\* serde::de::Unexpected, as shown in an "invalid type" error
Unexpected(ev) ==
  CASE ev.visit = "visit_bool" -> "boolean '" \o (IF ev.b THEN "true" ELSE "false") \o "'"
    [] ev.visit \in IntVisits -> "integer '" \o ev.n \o "'"
    [] ev.visit \in {"visit_f32", "visit_f64"} -> "floating point '" \o FormatFloat(ev.f) \o "'"
    [] ev.visit = "visit_char" -> "character '" \o ev.c \o "'"
    [] ev.visit \in {"visit_str", "visit_string"} -> "string \"" \o ev.s \o "\""
    [] ev.visit = "visit_unit" -> "unit value"
    [] ev.visit \in {"visit_none", "visit_some"} -> "Option value"
    [] ev.visit = "visit_seq" -> "sequence"
    [] ev.visit = "visit_map" -> "map"
    [] ev.visit = "visit_enum" -> "enum"

invalid_type(ev, expected) == Err("invalid type: " \o Unexpected(ev) \o ", expected " \o expected)

unknown_variant(s, T) == Err("unknown variant '" \o s \o "' of enum " \o T.name)

missing_field(name) == Err("missing field '" \o name \o "'")

duplicate_field(name) == Err("duplicate field '" \o name \o "'")

\* a numeral within the range of integer type T
FitsIn(T, n) ==
  IF Head(n) = "-" THEN ~MagLess(TyMinMag(T), Tail(n)) ELSE ~MagLess(TyMax(T), n)

\* the keys of a HashMap in a fixed enumeration
RECURSIVE KeySeq(_)
KeySeq(S) ==
  IF S = {} THEN <<>> ELSE LET k == CHOOSE x \in S : TRUE IN <<k>> \o KeySeq(S \ {k})

\* hash_map::IntoIter::next: which remaining entry comes next is decided by
\* the table's hash seed hs
hash_map_next(m, hs) == KeySeq(DOMAIN m)[(hs % Cardinality(DOMAIN m)) + 1]

Remove(m, k) == [x \in DOMAIN m \ {k} |-> m[x]]

HasField(fields, name) == \E i \in 1..Len(fields) : fields[i].name = name

FieldOf(fields, name) == fields[CHOOSE i \in 1..Len(fields) : fields[i].name = name]

-----------------------------------------------------------------------------
(* A JSON deserializer (serde_json) driving impl Deserialize for Value:    *)
(* the JSON model {null, bool, number, string, array, object}              *)

JNull == [t |-> "Json", j |-> "null"]

JBool(b) == [t |-> "Json", j |-> "bool", b |-> b]

JNumber(n) == [t |-> "Json", j |-> "number", n |-> n]

JString(s) == [t |-> "Json", j |-> "string", s |-> s]

JArray(items) == [t |-> "Json", j |-> "array", items |-> items]

JObject(members) == [t |-> "Json", j |-> "object", members |-> members]

\* the callback the JSON deserializer makes for deserialize_any: elements
\* and member values are handed on as JSON deserializers in their turn
json_event(j) ==
  CASE j.j = "null" -> visit_unit
    [] j.j = "bool" -> visit_bool(j.b)
    [] j.j = "number" ->
         (CASE j.n.t = "PosInt" -> visit_u64(j.n.i)
            [] j.n.t = "NegInt" -> visit_i64(j.n.i)
            [] j.n.t = "Float" -> visit_f64(j.n.f))
    [] j.j = "string" -> visit_str(j.s)
    [] j.j = "array" -> visit_seq(SeqAccessor(j.items))
    [] j.j = "object" -> visit_map(MapAccessor_new(j.members))

RECURSIVE Deserialize(_, _, _), Visit(_, _, _), next_key_seed(_, _, _, _)
RECURSIVE next_value_seed(_, _, _), next_element_seed(_, _, _)
RECURSIVE value_visit_seq(_, _, _), value_visit_map(_, _, _)
RECURSIVE vec_visit_seq(_, _, _, _), ignored_visit_seq(_, _), ignored_visit_map(_, _)
RECURSIVE struct_visit_map(_, _, _, _), struct_finish(_, _, _)

\* MapAccessor::next_key_seed; k is the entry the iterator yields when one is left
next_key_seed(self, k, K, hs) ==
  IF DOMAIN self.map = {} THEN [self |-> self, ret |-> Ok(None)]
  ELSE LET r == Deserialize(K, StringDeserializer(k), hs)
       IN [self |-> [map |-> Remove(self.map, k), current_value |-> Some(self.map[k])],
           ret |-> IF IsErr(r) THEN r ELSE Ok(Some(r.ok))]

\* next_value_seed reading its value from the iterator instead of the one
\* next_key_seed stored
next_value_seed_from_iter(self, V, hs) ==
  IF DOMAIN self.map = {} THEN [self |-> self, ret |-> Err("value is missing")]
  ELSE LET k == hash_map_next(self.map, hs)
       IN [self |-> [map |-> Remove(self.map, k), current_value |-> None],
           ret |-> Deserialize(V, self.map[k], hs)]

\* MapAccessor::next_value_seed
next_value_seed(self, V, hs) ==
  IF IsSome(self.current_value)
  THEN [self |-> [self EXCEPT !.current_value = None],
        ret |-> Deserialize(V, self.current_value.some, hs)]
  ELSE [self |-> self, ret |-> Err("value is missing")]

\* SeqAccessor::next_element_seed
next_element_seed(self, T, hs) ==
  IF self.seq = <<>> THEN [self |-> self, ret |-> Ok(None)]
  ELSE LET r == Deserialize(T, Head(self.seq), hs)
       IN [self |-> [seq |-> Tail(self.seq)], ret |-> IF IsErr(r) THEN r ELSE Ok(Some(r.ok))]

\* ParamsValueVisitor::visit_seq: while let Some(elem) = seq.next_element()?
value_visit_seq(seq, vec, hs) ==
  LET r == next_element_seed(seq, ValueTy, hs)
  IN IF IsErr(r.ret) THEN r.ret
     ELSE IF r.ret.ok = None THEN Ok(Array(vec))
     ELSE value_visit_seq(r.self, Append(vec, r.ret.ok.some), hs)

\* visit_map with if let in place of while let: only the first entry is read
value_visit_map_first_only(acc, values, hs) ==
  LET k == IF DOMAIN acc.map = {} THEN "" ELSE hash_map_next(acc.map, hs)
      rk == next_key_seed(acc, k, Ty("String"), hs)
      rv == next_value_seed(rk.self, ValueTy, hs)
  IN IF IsErr(rk.ret) THEN rk.ret
     ELSE IF rk.ret.ok = None THEN Ok(Object(values))
     ELSE IF IsErr(rv.ret) THEN rv.ret
     ELSE Ok(Object(Entry(rk.ret.ok.some, rv.ret.ok) @@ values))

\* ParamsValueVisitor::visit_map: while let Some((key, value)) = map.next_entry()?
value_visit_map(acc, values, hs) ==
  LET k == IF DOMAIN acc.map = {} THEN "" ELSE hash_map_next(acc.map, hs)
      rk == next_key_seed(acc, k, Ty("String"), hs)
      rv == next_value_seed(rk.self, ValueTy, hs)
  IN IF IsErr(rk.ret) THEN rk.ret
     ELSE IF rk.ret.ok = None THEN Ok(Object(values))
     ELSE IF IsErr(rv.ret) THEN rv.ret
     ELSE value_visit_map(rv.self, Entry(rk.ret.ok.some, rv.ret.ok) @@ values, hs)

\* impl Visitor for ParamsValueVisitor (callbacks it does not define take
\* serde's defaults: narrower integers widen, visit_f32 widens, the rest
\* are an invalid type)
ParamsValueVisitor(ev, hs) ==
  CASE ev.visit = "visit_bool" -> Ok(Bool(ev.b))
    [] ev.visit \in {"visit_i8", "visit_i16", "visit_i32", "visit_i64"} ->
         Ok(Number(Number_from_i64(ev.n)))
    [] ev.visit \in {"visit_u8", "visit_u16", "visit_u32", "visit_u64"} ->
         Ok(Number(Number_from_u64(ev.n)))
    [] ev.visit \in {"visit_f32", "visit_f64"} -> Ok(Number(Number_from_f64(ev.f)))
    [] ev.visit = "visit_str" -> Ok(XStr(ev.s))
    [] ev.visit = "visit_string" -> Ok(XStr(ev.s))
    [] ev.visit = "visit_char" -> Ok(XStr(ev.c))
    [] ev.visit = "visit_none" -> Ok(Null)
    [] ev.visit = "visit_some" -> Deserialize(ValueTy, ev.de, hs)
    [] ev.visit = "visit_unit" -> Ok(Null)
    [] ev.visit = "visit_seq" -> value_visit_seq(ev.seq, <<>>, hs)
    [] ev.visit = "visit_map" -> value_visit_map(ev.map, EmptyMap, hs)
    [] OTHER -> invalid_type(ev, "any valid JSON value or upload file")

\* serde's visitors for the integer types: any integer callback, converted
\* with a range check
int_visitor(T, ev) ==
  IF ev.visit \in IntVisits
  THEN IF FitsIn(T.ty, ev.n) THEN Ok(ev.n)
       ELSE Err("invalid value: integer '" \o ev.n \o "', expected " \o T.ty)
  ELSE invalid_type(ev, T.ty)

\* serde's visitors for f32 / f64: float callbacks, and integers converted
float_visitor(T, ev) ==
  IF ev.visit \in {"visit_f32", "visit_f64"} THEN Ok(ev.f)
  ELSE IF ev.visit \in IntVisits
  THEN Ok(Decimal(Head(ev.n) = "-", IF Head(ev.n) = "-" THEN Tail(ev.n) ELSE ev.n, 0))
  ELSE invalid_type(ev, T.ty)

bool_visitor(ev) == IF ev.visit = "visit_bool" THEN Ok(ev.b) ELSE invalid_type(ev, "a boolean")

char_visitor(ev) ==
  IF ev.visit = "visit_char" THEN Ok(ev.c)
  ELSE IF ev.visit \in {"visit_str", "visit_string"}
  THEN IF Len(ev.s) = 1 THEN Ok(ev.s)
       ELSE Err("invalid value: string \"" \o ev.s \o "\", expected a character")
  ELSE invalid_type(ev, "a character")

string_visitor(ev) ==
  IF ev.visit \in {"visit_str", "visit_string"} THEN Ok(ev.s) ELSE invalid_type(ev, "a string")

\* the derived __Field visitor: a declared field name, or __ignore
identifier_visitor(T, ev) ==
  IF ev.visit \in {"visit_str", "visit_string"}
  THEN IF HasField(T.fields, ev.s) THEN Ok(ev.s) ELSE Ok("__ignore")
  ELSE invalid_type(ev, "field identifier")

\* the derived visitor of a unit-variant enum: visit_enum reads the variant
\* identifier from the EnumAccess and then takes unit_variant()
enum_visitor(T, ev) ==
  IF ev.visit = "visit_enum"
  THEN IF \E i \in 1..Len(T.variants) : T.variants[i] = ev.de.s THEN Ok(ev.de.s)
       ELSE unknown_variant(ev.de.s, T)
  ELSE invalid_type(ev, "enum " \o T.name)

\* Vec<T>: while let Some(value) = seq.next_element()?
vec_visit_seq(seq, T, vec, hs) ==
  LET r == next_element_seed(seq, T, hs)
  IN IF IsErr(r.ret) THEN r.ret
     ELSE IF r.ret.ok = None THEN Ok(vec)
     ELSE vec_visit_seq(r.self, T, Append(vec, r.ret.ok.some), hs)

\* IgnoredAny: every element and entry is read and dropped
ignored_visit_seq(seq, hs) ==
  LET r == next_element_seed(seq, Ty("IgnoredAny"), hs)
  IN IF IsErr(r.ret) THEN r.ret
     ELSE IF r.ret.ok = None THEN Ok("IgnoredAny")
     ELSE ignored_visit_seq(r.self, hs)

ignored_visit_map(acc, hs) ==
  LET k == IF DOMAIN acc.map = {} THEN "" ELSE hash_map_next(acc.map, hs)
      rk == next_key_seed(acc, k, Ty("IgnoredAny"), hs)
      rv == next_value_seed(rk.self, Ty("IgnoredAny"), hs)
  IN IF IsErr(rk.ret) THEN rk.ret
     ELSE IF rk.ret.ok = None THEN Ok("IgnoredAny")
     ELSE IF IsErr(rv.ret) THEN rv.ret
     ELSE ignored_visit_map(rv.self, hs)

\* the derived struct visitor, visit_map: read keys until None; a declared
\* field takes its value (twice is a duplicate), any other key's value is
\* ignored
struct_visit_map(acc, T, got, hs) ==
  LET k == IF DOMAIN acc.map = {} THEN "" ELSE hash_map_next(acc.map, hs)
      rk == next_key_seed(acc, k, FieldTy(T.fields), hs)
      name == rk.ret.ok.some
      rv == next_value_seed(rk.self,
                            IF name = "__ignore" THEN Ty("IgnoredAny")
                            ELSE FieldOf(T.fields, name).ty, hs)
  IN IF IsErr(rk.ret) THEN rk.ret
     ELSE IF rk.ret.ok = None THEN struct_finish(T, got, 1)
     ELSE IF name # "__ignore" /\ name \in DOMAIN got THEN duplicate_field(name)
     ELSE IF IsErr(rv.ret) THEN rv.ret
     ELSE IF name = "__ignore" THEN struct_visit_map(rv.self, T, got, hs)
     ELSE struct_visit_map(rv.self, T, Entry(name, rv.ret.ok) @@ got, hs)

\* after the loop: fields in declaration order; an absent Option field is
\* None, any other absent field is missing
struct_finish(T, got, i) ==
  IF i > Len(T.fields) THEN Ok(got)
  ELSE IF T.fields[i].name \in DOMAIN got THEN struct_finish(T, got, i + 1)
  ELSE IF T.fields[i].ty.ty = "Option"
  THEN struct_finish(T, Entry(T.fields[i].name, None) @@ got, i + 1)
  ELSE missing_field(T.fields[i].name)

struct_visitor(T, ev, hs) ==
  IF ev.visit = "visit_map" THEN struct_visit_map(ev.map, T, EmptyMap, hs)
  ELSE invalid_type(ev, "struct " \o T.name)

option_visitor(T, ev, hs) ==
  IF ev.visit \in {"visit_none", "visit_unit"} THEN Ok(None)
  ELSE IF ev.visit = "visit_some"
  THEN (LET r == Deserialize(T.of, ev.de, hs) IN IF IsErr(r) THEN r ELSE Ok(Some(r.ok)))
  ELSE invalid_type(ev, "option")

ignored_visitor(ev, hs) ==
  IF ev.visit = "visit_seq" THEN ignored_visit_seq(ev.seq, hs)
  ELSE IF ev.visit = "visit_map" THEN ignored_visit_map(ev.map, hs)
  ELSE IF ev.visit = "visit_some" THEN Deserialize(Ty("IgnoredAny"), ev.de, hs)
  ELSE Ok("IgnoredAny")

\* The visitor of target type T receiving what the Deserializer method
\* produced: a callback, or the method's own error
Visit(T, ev, hs) ==
  IF IsErr(ev) THEN ev
  ELSE CASE T.ty = "Value" -> ParamsValueVisitor(ev, hs)
         [] T.ty \in IntTypes -> int_visitor(T, ev)
         [] T.ty \in {"f32", "f64"} -> float_visitor(T, ev)
         [] T.ty = "bool" -> bool_visitor(ev)
         [] T.ty = "char" -> char_visitor(ev)
         [] T.ty = "String" -> string_visitor(ev)
         [] T.ty = "identifier" -> identifier_visitor(T, ev)
         [] T.ty = "enum" -> enum_visitor(T, ev)
         [] T.ty = "struct" -> struct_visitor(T, ev, hs)
         [] T.ty = "Option" -> option_visitor(T, ev, hs)
         [] T.ty = "Vec" ->
              (IF ev.visit = "visit_seq" THEN vec_visit_seq(ev.seq, T.of, <<>>, hs)
               ELSE invalid_type(ev, "a sequence"))
         [] T.ty = "IgnoredAny" -> ignored_visitor(ev, hs)

\* serde's StringDeserializer (String::into_deserializer()): visit_enum for
\* an enum request, visit_string for every other
string_deserializer(method, de) ==
  IF method = "enum" THEN visit_enum(de) ELSE visit_string(de.s)

\* T::deserialize(de): impl Deserialize for Value calls deserialize_any with
\* ParamsValueVisitor; every other T calls its own method with its visitor
Deserialize(T, de, hs) ==
  Visit(T,
        IF de.t = "StringDeserializer" THEN string_deserializer(MethodOf(T), de)
        ELSE IF de.t = "Json" THEN json_event(de)
        ELSE deserialize(MethodOf(T), de),
        hs)

\* Value::deserialize(json)
value_from_json(j) == Deserialize(ValueTy, j, 0)

-----------------------------------------------------------------------------
(* Inputs *)

\* every spelling of w in upper and lower case letters
RECURSIVE CaseVariants(_)
CaseVariants(w) ==
  IF w = "" THEN {""}
  ELSE {c \o rest : c \in {char_to_lowercase(Head(w)), char_to_uppercase(Head(w))},
                    rest \in CaseVariants(Tail(w))}

BoolWords == {"true", "1", "on", "yes", "false", "0", "off", "no"}

BoolTexts ==
  UNION {CaseVariants(w) : w \in BoolWords \cup {"maybe", "y", "t", "nope"}}
  \cup {"", " true", "true ", "truee", "tru", "2", "01", "10", "o n", "-1", "+1", "yes!"}

IntTexts ==
  {"", "+", "-", "0", "-0", "+0", "00", "7", "+7", "-7", "007", "-007", "10", "-3",
   "1a", "a1", "a", " 1", "1 ", "1.5", "1e2", "0x1f", "1_000", "--1", "+-1", "1-", "1+",
   "127", "128", "-128", "-129", "0000128", "-0000128", "0000127",
   "255", "256", "-255", "-256",
   "32767", "32768", "-32768", "-32769",
   "65535", "65536",
   "2147483647", "2147483648", "-2147483648", "-2147483649",
   "4294967295", "4294967296", "4294967300",
   "9223372036854775807", "9223372036854775808",
   "-9223372036854775808", "-9223372036854775809",
   "18446744073709551615", "18446744073709551616", "18446744073709551620",
   "+18446744073709551615", "-18446744073709551615",
   "99999999999999999999", "100000000000000000000", "-99999999999999999999",
   "340282366920938463463374607431768211456", "99999999999999999999a"}

FloatTexts ==
  {"1.5", "-0.5", "+2.50", "0.0", "-0", "1.", ".5", ".", "1e3", "12E-2", "1e+2", "1e", "e5",
   "1.5.2", "1.5e", "inf", "-Infinity", "NaN", "nan", "infinit", "abc", "1,5", "0.001", "100"}

CharTexts == {"a", "Z", "ab", "xyz"}

EnumTexts == {"usd", "gbp", "cad", "USD", "Usd", "usD", "eur", "usd ", "us"}

Texts == BoolTexts \cup IntTexts \cup FloatTexts \cup CharTexts \cup EnumTexts

File1 == [name |-> "a.txt", content_type |-> "text/plain", temp_file_path |-> "/tmp/upload-1"]

File2 == [name |-> "", content_type |-> "image/png", temp_file_path |-> "/tmp/x/name"]

File3 == [name |-> "name", content_type |-> "content_type", temp_file_path |-> "temp_file_path"]

Files == {File1, File2, File3}

F(neg, m, e) == [neg |-> neg, m |-> m, e |-> e]

Numbers ==
  {Number(PosInt(n)) : n \in {"0", "1", "10", "127", "128", "300", "70000", "4294967296",
                               "18446744073709551615"}}
  \cup {Number(NegInt(n)) : n \in {"-1", "-3", "-128", "-129", "-9223372036854775808"}}
  \cup {Number(Float(f)) : f \in {F(FALSE, "15", -1), F(TRUE, "5", -1), F(FALSE, "0", 0),
                                  F(FALSE, "1", 3)}}

Containers ==
  {Array(<<>>), Array(<<XStr("1"), XStr("2")>>), Array(<<String("true")>>),
   Object(EmptyMap),
   Object(Entry("amount", XStr("10")) @@ Entry("currency_code", XStr("usd"))),
   Object(Entry("usd", Null))}

\* the source values of the scalar and enum requests
Sources ==
  {XStr(s) : s \in Texts} \cup {String(s) : s \in Texts}
  \cup {Null, Bool(TRUE), Bool(FALSE)} \cup Numbers \cup Containers
  \cup {UploadFile(f) : f \in Files}

ScalarMethods ==
  {"bool", "i8", "i16", "i32", "i64", "u8", "u16", "u32", "u64", "f32", "f64", "char"}

-----------------------------------------------------------------------------
(* Specification Spec: one Deserializer method of Value applied to a       *)
(* source value.  The source is drawn at the start; each action is one     *)
(* method, and outcome is the callback its visitor receives or the error   *)
(* the method returns without calling the visitor.                         *)

Idle == [idle |-> TRUE]

NoAccessor ==
  /\ map = EmptyMap
  /\ current_value = None
  /\ calls = <<>>

Init ==
  /\ input = None
  /\ value \in Sources
  /\ request = Idle
  /\ outcome = None
  /\ first_outcome = None
  /\ NoAccessor

Apply(method) ==
  /\ request = Idle
  /\ request' = [method |-> method]
  /\ outcome' = deserialize(method, value)
  /\ UNCHANGED <<input, value, first_outcome, map, current_value, calls>>

DeserializeAny == Apply("any")

DeserializeEnum == Apply("enum")

DeserializeBool == Apply("bool")

DeserializeI8 == Apply("i8")

DeserializeI16 == Apply("i16")

DeserializeI32 == Apply("i32")

DeserializeI64 == Apply("i64")

DeserializeU8 == Apply("u8")

DeserializeU16 == Apply("u16")

DeserializeU32 == Apply("u32")

DeserializeU64 == Apply("u64")

DeserializeF32 == Apply("f32")

DeserializeF64 == Apply("f64")

DeserializeChar == Apply("char")

DeserializeOption == Apply("option")

DeserializeForwarded == \E method \in Forwarded : Apply(method)

Next ==
  \/ DeserializeAny
  \/ DeserializeEnum
  \/ DeserializeBool
  \/ DeserializeI8
  \/ DeserializeI16
  \/ DeserializeI32
  \/ DeserializeI64
  \/ DeserializeU8
  \/ DeserializeU16
  \/ DeserializeU32
  \/ DeserializeU64
  \/ DeserializeF32
  \/ DeserializeF64
  \/ DeserializeChar
  \/ DeserializeOption
  \/ DeserializeForwarded

Spec == Init /\ [][Next]_vars

-----------------------------------------------------------------------------
(* Properties of the Deserializer methods, checked under Spec *)

Requested(method) == request = [method |-> method]

\* s and w are the same text up to letter case (w is lower case)
EqIgnoreCase(s, w) ==
  /\ Len(s) = Len(w)
  /\ \A i \in 1..Len(s) : char_to_lowercase(CharAt(s, i)) = CharAt(w, i)

\* C1: a boolean requested from XStr(s) is true for "true", "1", "on",
\* "yes", false for "false", "0", "off", "no", both in any letter case, and
\* an error for every other text; no respelling of s in another letter case
\* changes the outcome.
C1_BoolCoercion ==
  (Requested("bool") /\ value.t = "XStr") =>
    /\ (\E w \in {"true", "1", "on", "yes"} : EqIgnoreCase(value.s, w))
         => outcome = visit_bool(TRUE)
    /\ (\E w \in {"false", "0", "off", "no"} : EqIgnoreCase(value.s, w))
         => outcome = visit_bool(FALSE)
    /\ (\A w \in BoolWords : ~EqIgnoreCase(value.s, w)) => IsErr(outcome)
    /\ \A v \in CaseVariants(value.s) : deserialize_bool(XStr(v)) = outcome

C1_Witness ==
  /\ Requested("bool")
  /\ value = XStr("oFf")
  /\ outcome = visit_bool(FALSE)

\* C3: an enumeration requested from XStr(s) or String(s) takes s as the
\* selector of a unit variant: the derived visitor yields the variant named
\* exactly s, or an error when no variant has that name; from every other
\* source the outcome is that of deserialize_any.
C3_EnumSelector ==
  Requested("enum") =>
    IF value.t \in {"XStr", "String"}
    THEN /\ outcome = visit_enum(StringDeserializer(value.s))
         /\ IF value.s \in {"usd", "gbp", "cad"}
            THEN enum_visitor(CurrencyCode, outcome) = Ok(value.s)
            ELSE IsErr(enum_visitor(CurrencyCode, outcome))
    ELSE outcome = deserialize_any(value)

C3_Witness ==
  /\ Requested("enum")
  /\ value = String("gbp")
  /\ enum_visitor(CurrencyCode, outcome) = Ok("gbp")

\* C6: a scalar requested from a source that is not XStr has the outcome of
\* deserialize_any on that source: PosInt(10) as i32 is 10 with no parsing,
\* and String("true") as bool and String("10") as i32 stay text, which the
\* bool and i32 visitors refuse.
C6_OnlyXStrCoerced ==
  ((\E m \in ScalarMethods : Requested(m)) /\ value.t # "XStr") =>
    /\ outcome = deserialize_any(value)
    /\ (Requested("i32") /\ value = Number(PosInt("10")))
         => /\ outcome = visit_u64("10")
            /\ int_visitor(Ty("i32"), outcome) = Ok("10")
    /\ (Requested("bool") /\ value = String("true"))
         => /\ outcome = visit_string("true")
            /\ IsErr(bool_visitor(outcome))
    /\ (Requested("i32") /\ value = String("10"))
         => /\ outcome = visit_string("10")
            /\ IsErr(int_visitor(Ty("i32"), outcome))

C6_Witness ==
  /\ Requested("i32")
  /\ value = String("10")
  /\ outcome = visit_string("10")

\* the integer literals of type T: an optional sign (a minus only for a
\* signed type) and then one or more decimal digits
LiteralBody(T, s) ==
  IF s # "" /\ (Head(s) = "+" \/ (Head(s) = "-" /\ is_signed_ty(T))) THEN Tail(s) ELSE s

IsIntLiteral(T, s) ==
  /\ LiteralBody(T, s) # ""
  /\ \A i \in 1..Len(LiteralBody(T, s)) : CharAt(LiteralBody(T, s), i) \in Digits

\* twice a magnitude, digit by digit from the right
RECURSIVE DoubleFrom(_, _)
DoubleFrom(m, carry) ==
  IF m = "" THEN (IF carry = 0 THEN "" ELSE "1")
  ELSE LET d == 2 * DigitVal(CharAt(m, Len(m))) + carry
       IN DoubleFrom(SubSeq(m, 1, Len(m) - 1), d \div 10) \o CharAt("0123456789", (d % 10) + 1)

\* acc * 2^k
RECURSIVE TimesPow2(_, _)
TimesPow2(acc, k) == IF Len(acc) = 0 \/ k = 0 THEN acc ELSE TimesPow2(DoubleFrom(acc, 0), k - 1)

Pow2(k) == TimesPow2("1", k)

BitsOf(T) ==
  CASE T \in {"i8", "u8"} -> 8 [] T \in {"i16", "u16"} -> 16
    [] T \in {"i32", "u32"} -> 32 [] T \in {"i64", "u64"} -> 64

\* the value of literal s lies in -2^(bits-1) .. 2^(bits-1) - 1 for a signed
\* type and in 0 .. 2^bits - 1 for an unsigned one
LiteralInRange(T, s) ==
  LET mag == StripLeadingZeros(LiteralBody(T, s))
  IN IF ~is_signed_ty(T) THEN MagLess(mag, Pow2(BitsOf(T)))
     ELSE IF Head(s) = "-" THEN ~MagLess(Pow2(BitsOf(T) - 1), mag)
     ELSE MagLess(mag, Pow2(BitsOf(T) - 1))

LiteralValue(T, s) ==
  LET mag == StripLeadingZeros(LiteralBody(T, s))
  IN IF Head(s) = "-" /\ mag # "0" THEN "-" \o mag ELSE mag

\* C9: an integer type T requested from XStr(s) yields the value of s when s
\* is an integer literal of T within T's range, and an error otherwise; a
\* value out of range is never wrapped or truncated.
C9_IntegerCoercion ==
  \A T \in IntTypes :
    (Requested(T) /\ value.t = "XStr") =>
      IF IsIntLiteral(T, value.s) /\ LiteralInRange(T, value.s)
      THEN outcome = visit_int(T, LiteralValue(T, value.s))
      ELSE IsErr(outcome)

C9_Witness ==
  /\ Requested("i8")
  /\ value = XStr("128")
  /\ IsErr(outcome)

-----------------------------------------------------------------------------
(* The nested-key parser (query_parser): flat (key, value) pairs to a      *)
(* Value::Object, following the bracket grammar of the specification       *)

IndexOfChar(s, c) ==
  IF \E i \in 1..Len(s) : CharAt(s, i) = c
  THEN CHOOSE i \in 1..Len(s) : CharAt(s, i) = c /\ \A j \in 1..(i - 1) : CharAt(s, j) # c
  ELSE 0

\* the bracketed segments of rest, or malformed
RECURSIVE bracket_segments(_)
bracket_segments(rest) ==
  IF rest = "" THEN [ok |-> TRUE, segs |-> <<>>]
  ELSE IF Head(rest) # "[" \/ IndexOfChar(rest, "]") = 0 THEN [ok |-> FALSE, segs |-> <<>>]
  ELSE LET close == IndexOfChar(rest, "]")
           more == bracket_segments(Drop(rest, close))
       IN [ok |-> more.ok, segs |-> <<SubSeq(rest, 2, close - 1)>> \o more.segs]

\* a leading bare segment and its bracketed segments; a malformed bracket
\* sequence leaves the whole key as one bare segment
split_key(key) ==
  LET open == IndexOfChar(key, "[")
      tail == bracket_segments(Drop(key, open - 1))
  IN IF open <= 1 \/ ~tail.ok THEN <<key>> ELSE <<SubSeq(key, 1, open - 1)>> \o tail.segs

is_index_segment(seg) == \A i \in 1..Len(seg) : CharAt(seg, i) \in Digits

\* the node that results from assigning text v at path segs below node
\* (None when nothing is there yet)
RECURSIVE insert_at(_, _, _)
insert_at(node, segs, v) ==
  IF segs = <<>> THEN XStr(v)
  ELSE IF is_index_segment(Head(segs))
  THEN IF node # None /\ node.t = "Array"
       THEN Array(Append(node.vec, insert_at(None, Tail(segs), v)))
       ELSE Array(<<insert_at(None, Tail(segs), v)>>)
  ELSE LET m == IF node # None /\ node.t = "Object" THEN node.map ELSE EmptyMap
           child == IF Head(segs) \in DOMAIN m THEN m[Head(segs)] ELSE None
       IN Object(Entry(Head(segs), insert_at(child, Tail(segs), v)) @@ m)

RECURSIVE parse_pairs(_, _)
parse_pairs(pairs, root) ==
  IF pairs = <<>> THEN root
  ELSE LET segs == split_key(Head(pairs)[1])
           child == IF Head(segs) \in DOMAIN root.map THEN root.map[Head(segs)] ELSE None
       IN parse_pairs(Tail(pairs),
                      Object(Entry(Head(segs), insert_at(child, Tail(segs), Head(pairs)[2]))
                             @@ root.map))

parse_query(pairs) == parse_pairs(pairs, Object(EmptyMap))

-----------------------------------------------------------------------------
(* Specification SpecExtract: a Value is built from decoded query or form  *)
(* pairs, from a JSON document, or handed over as a tree, and is then      *)
(* deserialized into a target type; Repeat deserializes the same Value     *)
(* into the same type once more, its HashMaps seeded anew.                 *)

\* hash seeds: enough for every iteration order of a map of three entries
HashSeeds == 6

\* longest Array among the input trees
MaxLen == 2

\* number of keys among the input trees' Objects
MaxKeys == 2

KeyNames == <<"a", "b", "amount", "f">>

Keys == {KeyNames[i] : i \in 1..MaxKeys}

Leaves ==
  {Null, Bool(TRUE), Bool(FALSE), Number(PosInt("10")), Number(NegInt("-3")),
   Number(Float(F(FALSE, "15", -1))), String("a"), XStr("10"), UploadFile(File1)}

ArraysOf(S) == {Array(vec) : vec \in UNION {[1..n -> S] : n \in 0..MaxLen}}

ObjectsOf(S) == {Object(m) : m \in UNION {[D -> S] : D \in SUBSET Keys}}

Flat == ArraysOf(Leaves) \cup ObjectsOf(Leaves)

Nested ==
  {Array(<<c>>) : c \in Flat} \cup {Object(Entry("a", c)) : c \in Flat}
  \cup {Object(Entry("a", c) @@ Entry("b", Array(<<c, String("x")>>)) @@ Entry("c", Null)) :
          c \in ObjectsOf({String("a"), UploadFile(File2)})}

Trees == Leaves \cup Flat \cup Nested

Amounts == {"10", "20", "-3", "x", "2147483648", ""}

Selectors == {"usd", "gbp", "USD", "Usd", "eur"}

\* prefix[f1]=a&prefix[f2]=c, in either order
RecordPairs(prefix, f1, f2, a, c, swapped) ==
  LET p1 == <<prefix \o "[" \o f1 \o "]", a>>
      p2 == <<prefix \o "[" \o f2 \o "]", c>>
  IN IF swapped THEN <<p2, p1>> ELSE <<p1, p2>>

PairInputs ==
  {RecordPairs("currency", "amount", "currency_code", a, c, sw) :
     a \in Amounts, c \in Selectors, sw \in BOOLEAN}
  \cup {RecordPairs("a", "amount", "code", a, c, sw) :
          a \in Amounts, c \in Selectors, sw \in BOOLEAN}
  \cup {<< <<"amount", a>>, <<"currency_code", c>> >> : a \in {"10", "x"}, c \in {"usd", "USD"}}
  \cup {<< <<"currency[amount]", "10">> >>,
        << <<"currency[currency_code]", "cad">>, <<"currency[note]", "n">>,
           <<"currency[amount]", "7">>, <<"page", "2">> >>,
        << <<"a[b][c]", "1">> >>,
        << <<"a[]", "1">>, <<"a[]", "2">> >>,
        << <<"a", "1">>, <<"a", "2">>, <<"b[", "3">> >>}

JsonInputs ==
  {JNull, JBool(TRUE), JNumber(PosInt("10")), JNumber(NegInt("-3")),
   JNumber(Float(F(FALSE, "15", -1))), JString("a"), JString("true"), JString("10"),
   JArray(<<>>), JArray(<<JString("a"), JNumber(PosInt("1")), JNull>>),
   JObject([amount |-> JNumber(PosInt("10"))]),
   JObject([amount |-> JNumber(PosInt("10")), currency_code |-> JString("usd")]),
   JObject([amount |-> JString("10"), currency_code |-> JString("USD")]),
   JObject([currency |-> JObject([amount |-> JNumber(NegInt("-3")),
                                  currency_code |-> JString("gbp")])]),
   JObject([a |-> JArray(<<JObject([b |-> JString("x")]), JArray(<<JBool(FALSE)>>)>>)])}

\* the Object the pairs prefix[amount]=a, prefix[code]=c hold under prefix
RecordTree(a, c) == Object(Entry("amount", XStr(a)) @@ Entry("code", XStr(c)))

RecordTrees == {RecordTree(a, c) : a \in Amounts, c \in Selectors}

ExtractInputs ==
  {[pairs |-> ps] : ps \in PairInputs}
  \cup {[json |-> j] : j \in JsonInputs}
  \cup {[tree |-> v] : v \in Trees \cup RecordTrees}

RecordTargets == {Currency, CurrencyWrapper, Record, RecordWrapper}

OtherTargets ==
  {CurrencyCode, Ty("i32"), Ty("bool"), Ty("String"), Ty("IgnoredAny"),
   OptionTy(Ty("i32")), VecTy(Ty("i32"))}

InitExtract ==
  /\ input \in ExtractInputs
  /\ value = Null
  /\ request = Idle
  /\ outcome = None
  /\ first_outcome = None
  /\ NoAccessor

Built(how, v) ==
  /\ request = Idle
  /\ request' = [built |-> how]
  /\ value' = v
  /\ UNCHANGED <<input, outcome, first_outcome, map, current_value, calls>>

\* the nested-key parser on decoded query or form pairs
ParseQuery == "pairs" \in DOMAIN input /\ Built("pairs", parse_query(input.pairs))

\* Value::deserialize on a JSON document
DeserializeJson == "json" \in DOMAIN input /\ Built("json", value_from_json(input.json).ok)

\* a tree handed over as built (multipart parts, or any other producer)
TakeTree == "tree" \in DOMAIN input /\ Built("tree", input.tree)

\* T::deserialize(value)
Extract(T) ==
  /\ "built" \in DOMAIN request
  /\ \E hs \in 0..(HashSeeds - 1) : outcome' = Deserialize(T, value, hs)
  /\ request' = [target |-> T]
  /\ UNCHANGED <<input, value, first_outcome, map, current_value, calls>>

ExtractValue == Extract(ValueTy)

ExtractRecord == \E T \in RecordTargets : Extract(T)

ExtractOther == \E T \in OtherTargets : Extract(T)

\* the same Value into the same type once more
Repeat ==
  /\ "target" \in DOMAIN request
  /\ first_outcome = None
  /\ first_outcome' = Some(outcome)
  /\ \E hs \in 0..(HashSeeds - 1) : outcome' = Deserialize(request.target, value, hs)
  /\ UNCHANGED <<input, value, request, map, current_value, calls>>

NextExtract ==
  \/ ParseQuery
  \/ DeserializeJson
  \/ TakeTree
  \/ ExtractValue
  \/ ExtractRecord
  \/ ExtractOther
  \/ Repeat

SpecExtract == InitExtract /\ [][NextExtract]_vars

-----------------------------------------------------------------------------
(* Properties of SpecExtract *)

Target(T) == request = [target |-> T]

\* the record {amount: i32, code: usd} read from the texts a and c
RecordOf(a, c) ==
  IF c = "usd" /\ IsIntLiteral("i32", a) /\ LiteralInRange("i32", a)
  THEN Ok(Entry("amount", LiteralValue("i32", a)) @@ Entry("code", "usd"))
  ELSE Err("")

RECURSIVE JsonAsString(_)
JsonAsString(j) ==
  CASE j.j = "null" -> Null
    [] j.j = "bool" -> Bool(j.b)
    [] j.j = "number" -> Number(j.n)
    [] j.j = "string" -> String(j.s)
    [] j.j = "array" -> Array([i \in 1..Len(j.items) |-> JsonAsString(j.items[i])])
    [] j.j = "object" -> Object([k \in DOMAIN j.members |-> JsonAsString(j.members[k])])

\* C4: a Value built from a JSON document through Value's Deserialize has a
\* Value::String for every string, at every depth, a Number of the event's
\* kind for every number and Null for null.
C4_JsonStringsAreString ==
  request = [built |-> "json"] => value = JsonAsString(input.json)

\* what deserializing v back into a Value returns: a text leaf comes back as
\* XStr, an upload as the Object of its three fields
RECURSIVE RoundTrip(_)
RoundTrip(v) ==
  CASE v.t \in {"String", "XStr"} -> XStr(v.s)
    [] v.t = "Array" -> Array([i \in 1..Len(v.vec) |-> RoundTrip(v.vec[i])])
    [] v.t = "Object" -> Object([k \in DOMAIN v.map |-> RoundTrip(v.map[k])])
    [] v.t = "UploadFile" ->
         Object([k \in {"name", "content_type", "temp_file_path"} |-> XStr(v.file[k])])
    [] OTHER -> v

\* w has the container shapes and the scalar values of v
RECURSIVE SameShape(_, _)
SameShape(v, w) ==
  CASE v.t = "Array" ->
         /\ w.t = "Array"
         /\ Len(w.vec) = Len(v.vec)
         /\ \A i \in 1..Len(v.vec) : SameShape(v.vec[i], w.vec[i])
    [] v.t = "Object" ->
         /\ w.t = "Object"
         /\ DOMAIN w.map = DOMAIN v.map
         /\ \A k \in DOMAIN v.map : SameShape(v.map[k], w.map[k])
    [] v.t \in {"String", "XStr"} -> w.t \in {"String", "XStr"} /\ w.s = v.s
    [] OTHER -> w.t = v.t /\ w = v

\* C5 as stated: deserializing any Value tree back into a Value succeeds and
\* keeps every Array's length and order, every Object's key set and every
\* leaf's scalar value.
C5_RoundTripKeepsLeaves ==
  Target(ValueTy) => IsOk(outcome) /\ SameShape(value, outcome.ok)

\* C5 amended: deserializing any Value tree back into a Value succeeds; every
\* Array keeps its length and order, every Object its key set, every leaf
\* other than an UploadFile its scalar value (a String comes back as an XStr
\* of the same text), and an UploadFile leaf comes back as an Object with
\* the keys name, content_type and temp_file_path, each the field's text.
C5_RoundTrip ==
  Target(ValueTy) => outcome = Ok(RoundTrip(value))

C5_Witness ==
  /\ Target(ValueTy)
  /\ value = Object(Entry("a", Array(<<String("a"), UploadFile(File1)>>)))
  /\ outcome = Ok(Object(Entry("a", Array(<<XStr("a"), RoundTrip(UploadFile(File1))>>))))

\* C7: deserializing an equal Value tree into the same target type once more
\* gives the same outcome, the same error included, whatever order the
\* entries of its Objects are traversed in.
C7_Deterministic ==
  first_outcome # None => first_outcome = Some(outcome)

-----------------------------------------------------------------------------
(* Properties of Spec, continued *)

\* C8: generic deserialization of an UploadFile presents a map with exactly
\* the keys name, content_type and temp_file_path, each paired with the text
\* of the corresponding field of the upload.
C8_UploadFileMap ==
  (Requested("any") /\ value.t = "UploadFile") =>
    /\ outcome.visit = "visit_map"
    /\ outcome.map.current_value = None
    /\ DOMAIN outcome.map.map = {"name", "content_type", "temp_file_path"}
    /\ \A k \in DOMAIN outcome.map.map : outcome.map.map[k] = String(value.file[k])

C8_Witness ==
  /\ Requested("any")
  /\ value = UploadFile(File3)
  /\ outcome.visit = "visit_map"
  /\ outcome.map.map["temp_file_path"] = String("temp_file_path")

-----------------------------------------------------------------------------
(* Specification SpecAccessor: a MapAccessor is built from an Object and   *)
(* then driven by next_key_seed and next_value_seed calls in any order,    *)
(* with key and value seeds that may fail. calls is the log of the calls   *)
(* made: the seed, the entry the iterator gave up, what was returned and   *)
(* the number of entries left.                                             *)

\* longest sequence of calls on one accessor
MaxCalls == 5

AccessorObjects ==
  {Object(m) : m \in UNION {[D -> {XStr("1"), XStr("x"), Bool(TRUE)}] : D \in SUBSET {"a", "b"}}}

KeySeeds == {Ty("String"), Ty("i32")}

ValueSeeds == {ValueTy, Ty("i32")}

InitAccessor ==
  /\ input \in AccessorObjects
  /\ value = Null
  /\ request = Idle
  /\ outcome = None
  /\ first_outcome = None
  /\ NoAccessor

\* MapAccessor::new(map)
New ==
  /\ request = Idle
  /\ request' = [accessor |-> TRUE]
  /\ map' = MapAccessor_new(input.map).map
  /\ current_value' = MapAccessor_new(input.map).current_value
  /\ UNCHANGED <<input, value, outcome, first_outcome, calls>>

Called(op, seed, taken, r) ==
  /\ map' = r.self.map
  /\ current_value' = r.self.current_value
  /\ outcome' = r.ret
  /\ calls' = Append(calls, [op |-> op, seed |-> seed, taken |-> taken, ret |-> r.ret,
                              left |-> Cardinality(DOMAIN r.self.map)])
  /\ UNCHANGED <<input, value, request, first_outcome>>

\* map.next_key_seed(K)
NextKeySeed ==
  /\ request = [accessor |-> TRUE]
  /\ Len(calls) < MaxCalls
  /\ \E K \in KeySeeds, hs \in 0..(HashSeeds - 1) :
       LET self == [map |-> map, current_value |-> current_value]
           k == IF DOMAIN map = {} THEN "" ELSE hash_map_next(map, hs)
       IN Called("next_key_seed", K, IF DOMAIN map = {} THEN None ELSE Some(k),
                 next_key_seed(self, k, K, hs))

\* map.next_value_seed(V)
NextValueSeed ==
  /\ request = [accessor |-> TRUE]
  /\ Len(calls) < MaxCalls
  /\ \E V \in ValueSeeds, hs \in 0..(HashSeeds - 1) :
       Called("next_value_seed", V, None,
              next_value_seed([map |-> map, current_value |-> current_value], V, hs))

NextAccessor ==
  \/ New
  \/ NextKeySeed
  \/ NextValueSeed

SpecAccessor == InitAccessor /\ [][NextAccessor]_vars

-----------------------------------------------------------------------------
(* Properties of SpecAccessor *)

IsKeyCall(i) == calls[i].op = "next_key_seed"

IsValueCall(i) == calls[i].op = "next_value_seed"

\* the next_key_seed calls before call i that returned a key
ReturnedBefore(i) ==
  {j \in 1..(i - 1) : IsKeyCall(j) /\ IsOk(calls[j].ret) /\ calls[j].ret.ok # None}

\* the next_key_seed calls before call i that took an entry from the iterator
TakenBefore(i) == {j \in 1..(i - 1) : IsKeyCall(j) /\ calls[j].taken # None}

Last(S) == CHOOSE j \in S : \A m \in S : m <= j

\* a call among S is still owed its value at call i: none since the last
ValueOwed(S, i) ==
  S # {} /\ \A m \in (Last(S) + 1)..(i - 1) : ~IsValueCall(m)

LeftBefore(i) == IF i = 1 THEN Cardinality(DOMAIN input.map) ELSE calls[i - 1].left

\* no later next_key_seed returns a key once one has returned None
StaysExhausted ==
  \A i, j \in 1..Len(calls) :
    (i < j /\ IsKeyCall(i) /\ IsKeyCall(j) /\ calls[i].ret = Ok(None)) => calls[j].ret = Ok(None)

\* next_value_seed consumes no entry
ValueCallsConsumeNothing ==
  \A i \in 1..Len(calls) : IsValueCall(i) => calls[i].left = LeftBefore(i)

\* keys and values requested alternately until next_key_seed returns None,
\* with seeds that succeed: exactly the entries of the Object, each once
AlternateYieldsEntries ==
  (/\ Len(calls) % 2 = 1
   /\ \A i \in 1..Len(calls) :
        /\ IsKeyCall(i) <=> i % 2 = 1
        /\ IsKeyCall(i) => calls[i].seed = Ty("String")
        /\ IsValueCall(i) => calls[i].seed = ValueTy
        /\ IsKeyCall(i) => (calls[i].ret = Ok(None) <=> i = Len(calls))) =>
    /\ Len(calls) = 2 * Cardinality(DOMAIN input.map) + 1
    /\ {calls[i].ret.ok.some : i \in {j \in 1..(Len(calls) - 1) : IsKeyCall(j)}}
         = DOMAIN input.map
    /\ \A i \in 1..(Len(calls) - 1) :
         IsValueCall(i) => calls[i].ret = Ok(input.map[calls[i - 1].ret.ok.some])

\* C10 as stated: each key is returned at most once; next_value_seed
\* returns the value of the entry whose key was most recently returned, at
\* most once, and with no such key pending returns "value is missing"
\* without consuming an entry; next_key_seed returns None on every call
\* after exhaustion; alternate requests yield exactly the Object's entries.
C10_ValueOfReturnedKey ==
  /\ \A i, j \in ReturnedBefore(Len(calls) + 1) :
       i # j => calls[i].ret.ok.some # calls[j].ret.ok.some
  /\ \A i \in 1..Len(calls) :
       IsValueCall(i) =>
         IF ValueOwed(ReturnedBefore(i), i)
         THEN calls[i].ret = Deserialize(calls[i].seed,
                                         input.map[calls[Last(ReturnedBefore(i))].ret.ok.some], 0)
         ELSE calls[i].ret = Err("value is missing")
  /\ ValueCallsConsumeNothing
  /\ StaysExhausted
  /\ AlternateYieldsEntries

\* C10 amended: each entry is taken from the iterator at most once;
\* next_value_seed returns the value of the entry next_key_seed took most
\* recently, whether or not that call's key seed succeeded and returned the
\* key, and returns it at most once; when no taken entry is owed its value
\* it returns "value is missing"; it never consumes an entry; next_key_seed
\* returns None on every call after exhaustion; alternate requests with
\* succeeding seeds yield exactly the Object's entries, each once.
C10_ValueOfTakenEntry ==
  /\ \A i, j \in TakenBefore(Len(calls) + 1) : i # j => calls[i].taken # calls[j].taken
  /\ \A i \in 1..Len(calls) :
       IsValueCall(i) =>
         IF ValueOwed(TakenBefore(i), i)
         THEN calls[i].ret = Deserialize(calls[i].seed,
                                         input.map[calls[Last(TakenBefore(i))].taken.some], 0)
         ELSE calls[i].ret = Err("value is missing")
  /\ ValueCallsConsumeNothing
  /\ StaysExhausted
  /\ AlternateYieldsEntries

\* a key seed fails, the value of the entry it took is returned all the
\* same, a second request finds the value missing, and the remaining entry
\* and the exhaustion follow
C10_Witness ==
  /\ Len(calls) = 5
  /\ IsKeyCall(1) /\ IsErr(calls[1].ret)
  /\ IsValueCall(2) /\ calls[2].seed = ValueTy
  /\ calls[2].ret = Ok(input.map[calls[1].taken.some])
  /\ IsValueCall(3) /\ calls[3].ret = Err("value is missing")
  /\ IsKeyCall(4) /\ IsOk(calls[4].ret) /\ calls[4].ret.ok # None
  /\ IsKeyCall(5) /\ calls[5].ret = Ok(None)

====
